---- MODULE Spec2Model ----
(***************************************************************************)
(* State-machine model of the YaMDb review API (api_yamdb): the identity   *)
(* store and confirmation-code/token flow, the permission classes, and the *)
(* catalog / review / comment stores with their database constraints.      *)
(*                                                                         *)
(* A request handler is an operator from the current state and the         *)
(* request to the set of its outcomes (the state after it, response        *)
(* included); Handle turns the outcomes into a step.  The only handler     *)
(* split in two is Review creation, whose exists() pre-check and INSERT    *)
(* are separate database statements that other requests can interleave     *)
(* with.                                                                   *)
(***************************************************************************)
EXTENDS Integers, Sequences, FiniteSets

VARIABLES
    users,      \* rows of reviews_user: [id, username, email, role, is_superuser]
    nextUid,    \* next primary key of reviews_user (never reused)
    codes,      \* confirmation codes that were mailed out by register
    tokens,     \* user ids for which an access token has been minted
    consumed,   \* history: the codes a successful exchange has presented
    categories, \* slugs of the Category rows
    genres,     \* slugs of the Genre rows
    titles,     \* rows of reviews_title: [id, year]
    nextTid,    \* next primary key of reviews_title
    reviews,    \* rows of reviews_review: [id, title, author, text]
    nextRid,    \* next primary key of reviews_review
    comments,   \* rows of reviews_comment: [id, review, author, text]
    nextCid,    \* next primary key of reviews_comment
    inflight,   \* Review create requests between their pre-check and INSERT
    now,        \* current calendar year (wall clock)
    resp        \* the response to the last completed request

vars == <<users, nextUid, codes, tokens, consumed, categories, genres, titles,
          nextTid, reviews, nextRid, comments, nextCid, inflight, now, resp>>

\* the current state as a record, which the handlers' outcomes amend
State ==
    [users |-> users, nextUid |-> nextUid, codes |-> codes, tokens |-> tokens,
     consumed |-> consumed, categories |-> categories, genres |-> genres,
     titles |-> titles, nextTid |-> nextTid, reviews |-> reviews,
     nextRid |-> nextRid, comments |-> comments, nextCid |-> nextCid,
     inflight |-> inflight, now |-> now, resp |-> resp]

\* the step to outcome o
Apply(o) ==
    /\ users' = o.users
    /\ nextUid' = o.nextUid
    /\ codes' = o.codes
    /\ tokens' = o.tokens
    /\ consumed' = o.consumed
    /\ categories' = o.categories
    /\ genres' = o.genres
    /\ titles' = o.titles
    /\ nextTid' = o.nextTid
    /\ reviews' = o.reviews
    /\ nextRid' = o.nextRid
    /\ comments' = o.comments
    /\ nextCid' = o.nextCid
    /\ inflight' = o.inflight
    /\ now' = o.now
    /\ resp' = o.resp

(***************************************************************************)
(* Bounds of the model.                                                    *)
(***************************************************************************)
MaxUsers    == 2   \* user rows ever created (primary keys 1..MaxUsers)
MaxTitles   == 2   \* title rows ever created
MaxReviews  == 1   \* review rows ever created, one request at a time
MaxComments == 1   \* comment rows ever created
MaxInflight == 2   \* concurrent Review create requests
MaxRaced    == 2   \* review rows ever created by concurrent requests
BootYear    == 0   \* the calendar year, counted from it, when reviews.models was imported
MaxYear     == 1   \* the clock stops advancing at this year

(***************************************************************************)
(* Text.  A username is a sequence of characters so that letter case is    *)
(* something the model computes with.                                      *)
(***************************************************************************)
NoUser == 0          \* AnonymousUser / no row
None   == "none"     \* a field absent from the request data, or NULL
NoName == << >>      \* a username absent from the request data

LowerChar(c) ==
    CASE c = "M" -> "m"
      [] c = "E" -> "e"
      [] c = "A" -> "a"
      [] c = "R" -> "r"
      [] OTHER   -> c

\* str.lower(), and the case folding of the __iexact lookup
Lower(s) == [i \in DOMAIN s |-> LowerChar(s[i])]

Usernames == { <<"M","e">>, <<"a">>, <<"A">> }
Emails    == { "x@y", "z@y" }
RootName  == <<"r">>
RootEmail == "x@y"

ADMIN     == "admin"
MODERATOR == "moderator"
USER      == "user"
ROLES     == {ADMIN, MODERATOR, USER}

(***************************************************************************)
(* Requests and responses.                                                 *)
(***************************************************************************)
SAFE_METHODS == {"GET", "HEAD", "OPTIONS"}

\* NotAuthenticated is rendered as 401 or 403 depending on the configured
\* authentication classes, which are not part of the sources.
NotAuthenticatedStatus == {401, 403}

\* the response to the request `op` of actor a; errors: the fields a 400
\* response reports as invalid
Response(op, a, status, errors) ==
    [op |-> op, actor |-> a, status |-> status, errors |-> errors]

\* the row of the authenticated user a
Row(a) == CHOOSE u \in users : u.id = a

\* who can send a request: nobody (AnonymousUser) or the bearer of an access
\* token whose user row still exists
Actors == {NoUser} \cup {a \in tokens : \E u \in users : u.id = a}

is_authenticated(a) == a # NoUser
is_superuser(a)     == Row(a).is_superuser
is_moderator(a)     == Row(a).role = MODERATOR
is_admin(a)         == Row(a).role = ADMIN

(***************************************************************************)
(* api/permissions.py                                                      *)
(***************************************************************************)
IsAdmin_has_permission(a) ==
    is_authenticated(a) /\ (is_admin(a) \/ is_superuser(a))

IsAuthenticated_has_permission(a) == is_authenticated(a)

\* mutant: IsAdminOrReadOnly lets every authenticated user write
IsAdminOrReadOnly_has_permission_any_user(method, a) ==
    method \in SAFE_METHODS \/ is_authenticated(a)

IsAdminOrReadOnly_has_permission(method, a) ==
    IF method \in SAFE_METHODS
    THEN TRUE
    ELSE a # NoUser /\ is_authenticated(a) /\ (is_admin(a) \/ is_superuser(a))

IsStaffOrAuthorOrReadOnly_has_permission(method, a) ==
    method \in SAFE_METHODS \/ is_authenticated(a)

\* mutant: IsStaffOrAuthorOrReadOnly without the object-level check
IsStaffOrAuthorOrReadOnly_has_object_permission_missing(method, a, obj) == TRUE

IsStaffOrAuthorOrReadOnly_has_object_permission(method, a, obj) ==
    IF method \in SAFE_METHODS
    THEN TRUE
    ELSE \/ is_superuser(a)
         \/ is_admin(a)
         \/ is_moderator(a)
         \/ obj.author = a

\* status of a request the permission classes reject
DeniedStatus(a) == IF is_authenticated(a) THEN {403} ELSE NotAuthenticatedStatus

\* the outcomes of a request that writes nothing
Reply(op, a, status, errors) ==
    {[State EXCEPT !.resp = Response(op, a, status, errors)]}

Denied(op, a) == UNION {Reply(op, a, st, {}) : st \in DeniedStatus(a)}

(***************************************************************************)
(* Identity store: validators and database constraints.                    *)
(***************************************************************************)
\* UniqueValidator(queryset=User.objects.all()) on username: an exact-match
\* lookup that leaves out the instance being updated
UniqueUsername(value, instance) ==
    ~ \E u \in users : u.id # instance /\ u.username = value

\* UniqueValidator(queryset=User.objects.all()) on email
UniqueEmail(value, instance) ==
    ~ \E u \in users : u.id # instance /\ u.email = value

\* SignUpSerializer.validate_username
validate_username(value) == Lower(value) # <<"m", "e">>

\* CheckConstraint username_is_not_me: ~Q(username__iexact="me")
username_is_not_me(row) == Lower(row.username) # <<"m", "e">>

\* the unique index of AbstractUser.username (exact match)
username_unique(row) ==
    \A u \in users : u.id # row.id => u.username # row.username

\* whether the database accepts writing the row (else IntegrityError)
UserRowAccepted(row) == username_is_not_me(row) /\ username_unique(row)

\* The serializers report the set of invalid fields; a request is valid when
\* the set is empty.
SignUpSerializer_errors(u, e) ==
    {f \in {"username"} : ~ UniqueUsername(u, NoUser) \/ ~ validate_username(u)}
    \cup {f \in {"email"} : ~ UniqueEmail(e, NoUser)}

UserSerializer_errors(data, instance) ==
    {f \in {"username"} :
        data.username # NoName /\ ~ UniqueUsername(data.username, instance)}
    \cup {f \in {"email"} :
        data.email # None /\ ~ UniqueEmail(data.email, instance)}

\* UserEditSerializer builds its fields from the model: username carries the
\* model's unique validator, email (not unique in AbstractUser) carries none
UserEditSerializer_errors(data, instance) ==
    {f \in {"username"} :
        data.username # NoName /\ ~ UniqueUsername(data.username, instance)}

NewUser(id, u, e, r) ==
    [id |-> id, username |-> u, email |-> e, role |-> r, is_superuser |-> FALSE]

\* ModelSerializer.update with UserSerializer: every submitted field is set
UserSerializer_update(row, data) ==
    [row EXCEPT !.username = IF data.username = NoName THEN @ ELSE data.username,
                !.email    = IF data.email = None THEN @ ELSE data.email,
                !.role     = IF data.role = None THEN @ ELSE data.role]

\* mutant: UserEditSerializer without read_only_fields = ('role',)
UserEditSerializer_update_role_writable(row, data) == UserSerializer_update(row, data)

\* ModelSerializer.update with UserEditSerializer: role is read-only
UserEditSerializer_update(row, data) ==
    [row EXCEPT !.username = IF data.username = NoName THEN @ ELSE data.username,
                !.email    = IF data.email = None THEN @ ELSE data.email]

\* the roles a request body names
RoleInputs == {ADMIN, USER}

\* the request bodies the model sends: for a create a complete body that
\* leaves role out (the default, "user") or asks for "admin", and for a
\* PATCH any body that submits at most one field
CreateData == [username : Usernames, email : Emails, role : {None, ADMIN}]
Blank      == [username |-> NoName, email |-> None, role |-> None]
PatchData  == {Blank} \cup {[Blank EXCEPT !.username = u] : u \in Usernames}
                      \cup {[Blank EXCEPT !.email = e] : e \in Emails}
                      \cup {[Blank EXCEPT !.role = r] : r \in RoleInputs}

\* a request that is rejected before its body is read (by the permission
\* classes, or because the path names no row) is sent with one body that
\* stands for all of them
Bodies(permitted, data) == IF permitted THEN data ELSE {CHOOSE d \in data : TRUE}

(***************************************************************************)
(* Confirmation codes.  default_token_generator hashes the user's primary  *)
(* key, password, last_login and email with a timestamp; none of the       *)
(* handlers writes password or last_login, so a code is determined by the  *)
(* primary key and the email.  Expiry (PASSWORD_RESET_TIMEOUT) is left     *)
(* out: every exchange here happens within the timeout.                    *)
(***************************************************************************)
make_token(row) == [uid |-> row.id, email |-> row.email]

check_token(row, code) == code = make_token(row)

BadCode == [uid |-> NoUser, email |-> None]

(***************************************************************************)
(* api/views.py: the identity handlers.                                    *)
(***************************************************************************)
\* POST /auth/signup/
register(u, e) ==
    IF SignUpSerializer_errors(u, e) # {}
    THEN Reply("signup", NoUser, 400, SignUpSerializer_errors(u, e))
    ELSE LET row == NewUser(nextUid, u, e, USER) IN
         IF ~ UserRowAccepted(row)
         THEN Reply("signup", NoUser, 500, {})
         ELSE \* send_mail either delivers the code or raises; the saved row
              \* is not rolled back
              { [State EXCEPT !.users = users \cup {row},
                              !.nextUid = nextUid + 1,
                              !.codes = codes \cup {make_token(row)},
                              !.resp = Response("signup", NoUser, 200, {})],
                [State EXCEPT !.users = users \cup {row},
                              !.nextUid = nextUid + 1,
                              !.resp = Response("signup", NoUser, 500, {})] }

\* POST /auth/token/
get_jwt_token(u, code) ==
    IF ~ \E row \in users : row.username = u
    THEN Reply("token", NoUser, 404, {})
    ELSE LET row == CHOOSE r \in users : r.username = u IN
         IF check_token(row, code)
         THEN { [State EXCEPT !.tokens = tokens \cup {row.id},
                              !.consumed = consumed \cup {code},
                              !.resp = Response("token", NoUser, 200, {})] }
         ELSE Reply("token", NoUser, 400, {})

\* POST /users/ (UserViewSet.create)
UserCreate(a, data) ==
    IF ~ IsAdmin_has_permission(a)
    THEN Denied("user_create", a)
    ELSE IF UserSerializer_errors(data, NoUser) # {}
    THEN Reply("user_create", a, 400, UserSerializer_errors(data, NoUser))
    ELSE LET row == NewUser(nextUid, data.username, data.email,
                            IF data.role = None THEN USER ELSE data.role) IN
         IF ~ UserRowAccepted(row)
         THEN Reply("user_create", a, 500, {})
         ELSE { [State EXCEPT !.users = users \cup {row},
                              !.nextUid = nextUid + 1,
                              !.resp = Response("user_create", a, 201, {})] }

\* PATCH /users/{username}/ (UserViewSet.partial_update)
UserUpdate(a, name, data) ==
    IF ~ IsAdmin_has_permission(a)
    THEN Denied("user_update", a)
    ELSE IF ~ \E row \in users : row.username = name
    THEN Reply("user_update", a, 404, {})
    ELSE LET old == CHOOSE r \in users : r.username = name
             row == UserSerializer_update(old, data) IN
         IF UserSerializer_errors(data, old.id) # {}
         THEN Reply("user_update", a, 400, UserSerializer_errors(data, old.id))
         ELSE IF ~ UserRowAccepted(row)
         THEN Reply("user_update", a, 500, {})
         ELSE { [State EXCEPT !.users = (users \ {old}) \cup {row},
                              !.resp = Response("user_update", a, 200, {})] }

\* DELETE /users/{username}/ (UserViewSet.destroy); Review.author and
\* Comment.author are on_delete=CASCADE
UserDestroy(a, name) ==
    IF ~ IsAdmin_has_permission(a)
    THEN Denied("user_destroy", a)
    ELSE IF ~ \E row \in users : row.username = name
    THEN Reply("user_destroy", a, 404, {})
    ELSE LET old  == CHOOSE r \in users : r.username = name
             gone == {r \in reviews : r.author = old.id} IN
         \* primary keys are never reused, so the codes and tokens of a
         \* deleted user can never be accepted again: they are forgotten
         { [State EXCEPT !.users = users \ {old},
                         !.codes = {c \in codes : c.uid # old.id},
                         !.tokens = tokens \ {old.id},
                         !.consumed = {c \in consumed : c.uid # old.id},
                         !.reviews = reviews \ gone,
                         !.comments = {c \in comments :
                                          /\ c.author # old.id
                                          /\ ~ \E r \in gone : r.id = c.review},
                         !.resp = Response("user_destroy", a, 204, {})] }

\* GET /users/me/
users_own_profile(a) ==
    IF ~ IsAuthenticated_has_permission(a)
    THEN Denied("me_get", a)
    ELSE Reply("me_get", a, 200, {})

\* PATCH /users/me/
patch_own_profile(a, data) ==
    IF ~ IsAuthenticated_has_permission(a)
    THEN Denied("me_patch", a)
    ELSE LET old == Row(a)
             row == UserEditSerializer_update(old, data) IN
         IF UserEditSerializer_errors(data, old.id) # {}
         THEN Reply("me_patch", a, 400, UserEditSerializer_errors(data, old.id))
         ELSE IF ~ UserRowAccepted(row)
         THEN Reply("me_patch", a, 500, {})
         ELSE { [State EXCEPT !.users = (users \ {old}) \cup {row},
                              !.resp = Response("me_patch", a, 200, {})] }

(***************************************************************************)
(* Catalog store: Category, Genre, Title.  A title row keeps the column    *)
(* the rules read (year).  The category and the genre slugs of a request   *)
(* body are validated against the stored rows, as TitlesSerializer does,   *)
(* but the links they set are read by no rule and are not kept; name and   *)
(* description are valid in every body the model sends.                    *)
(***************************************************************************)
CategorySlugs == {"c1"}
GenreSlugs    == {"g1"}

\* datetime.date.today().year
current_year == now

\* mutant: the year field loses max_value_current_year
max_value_current_year_missing(value) == TRUE

\* the validator of Title.year: raises for a value above current_year()
max_value_current_year(value) == value <= current_year

\* the validators of Title.year as the serializer field runs them:
\* MinValueValidator(0) and max_value_current_year
TitleYearValid(value) == value >= 0 /\ max_value_current_year(value)

\* the year a request may submit: absent, or a number up to one past the
\* last year of the clock (a one-element sequence, or the empty one)
NoYear == << >>
YearInputs == {NoYear} \cup {<<y>> : y \in 0 .. (MaxYear + 1)}

\* the genre list a request may submit: absent, or a list of slugs (the set
\* of them, as a one-element sequence)
NoGenre == << >>
GenreInputs == {NoGenre} \cup {<<g>> : g \in SUBSET GenreSlugs}

\* a title request body: any for a create, and for a PATCH one that submits
\* at most one field
TitleData == [year     : YearInputs,
              category : CategorySlugs \cup {None},
              genre    : GenreInputs]
TitlePatchData ==
    {d \in TitleData :
        \/ d.year = NoYear /\ d.category = None
        \/ d.year = NoYear /\ d.genre = NoGenre
        \/ d.category = None /\ d.genre = NoGenre}

TitleIds == 1..(nextTid - 1)

TitleExists(t) == \E row \in titles : row.id = t

TitleRow(t) == CHOOSE row \in titles : row.id = t

\* on_delete=CASCADE of Review.title
ReviewsOfTitle(t) == {r \in reviews : r.title = t}

\* mutant: deleting a review leaves its comments
CommentsOfReviews_kept(rows) == {}

\* on_delete=CASCADE of Comment.review
CommentsOfReviews(rows) == {c \in comments : \E r \in rows : r.id = c.review}

\* GET /categories/
CategoryList(a) ==
    IF ~ IsAdminOrReadOnly_has_permission("GET", a)
    THEN Denied("category_list", a)
    ELSE Reply("category_list", a, 200, {})

\* POST /categories/
CategoryCreate(a, slug) ==
    IF ~ IsAdminOrReadOnly_has_permission("POST", a)
    THEN Denied("category_create", a)
    ELSE IF slug \in categories
    THEN Reply("category_create", a, 400, {"slug"})
    ELSE { [State EXCEPT !.categories = categories \cup {slug},
                         !.resp = Response("category_create", a, 201, {})] }

\* DELETE /categories/{slug}/
CategoryDestroy(a, slug) ==
    IF ~ IsAdminOrReadOnly_has_permission("DELETE", a)
    THEN Denied("category_destroy", a)
    ELSE IF slug \notin categories
    THEN Reply("category_destroy", a, 404, {})
    ELSE { [State EXCEPT !.categories = categories \ {slug},
                         !.resp = Response("category_destroy", a, 204, {})] }

\* GET /genres/
GenreList(a) ==
    IF ~ IsAdminOrReadOnly_has_permission("GET", a)
    THEN Denied("genre_list", a)
    ELSE Reply("genre_list", a, 200, {})

\* POST /genres/
GenreCreate(a, slug) ==
    IF ~ IsAdminOrReadOnly_has_permission("POST", a)
    THEN Denied("genre_create", a)
    ELSE IF slug \in genres
    THEN Reply("genre_create", a, 400, {"slug"})
    ELSE { [State EXCEPT !.genres = genres \cup {slug},
                         !.resp = Response("genre_create", a, 201, {})] }

\* DELETE /genres/{slug}/
GenreDestroy(a, slug) ==
    IF ~ IsAdminOrReadOnly_has_permission("DELETE", a)
    THEN Denied("genre_destroy", a)
    ELSE IF slug \notin genres
    THEN Reply("genre_destroy", a, 404, {})
    ELSE { [State EXCEPT !.genres = genres \ {slug},
                         !.resp = Response("genre_destroy", a, 204, {})] }

\* GET /titles/ and GET /titles/{id}/
TitleList(a) ==
    IF ~ IsAdminOrReadOnly_has_permission("GET", a)
    THEN Denied("title_list", a)
    ELSE Reply("title_list", a, 200, {})

\* TitlesSerializer: the year field runs the validators of Title.year; the
\* category slug has to name a stored Category and every genre slug a stored
\* Genre, and both keys are required unless the update is partial
TitlesSerializer_errors(data, partial) ==
    {f \in {"year"} : data.year # NoYear /\ ~ TitleYearValid(data.year[1])}
    \cup {f \in {"category"} :
             IF data.category = None
             THEN ~ partial
             ELSE data.category \notin categories}
    \cup {f \in {"genre"} :
             IF data.genre = NoGenre
             THEN ~ partial
             ELSE ~ (data.genre[1] \subseteq genres)}

\* POST /titles/ ; a body without year stores the field default, which is
\* current_year() as evaluated when reviews.models was imported
TitleCreate(a, data) ==
    IF ~ IsAdminOrReadOnly_has_permission("POST", a)
    THEN Denied("title_create", a)
    ELSE IF TitlesSerializer_errors(data, FALSE) # {}
    THEN Reply("title_create", a, 400, TitlesSerializer_errors(data, FALSE))
    ELSE { [State EXCEPT !.titles = titles \cup
                            {[id |-> nextTid,
                              year |-> IF data.year = NoYear
                                       THEN BootYear ELSE data.year[1]]},
                         !.nextTid = nextTid + 1,
                         !.resp = Response("title_create", a, 201, {})] }

\* PATCH /titles/{id}/
TitleUpdate(a, t, data) ==
    IF ~ IsAdminOrReadOnly_has_permission("PATCH", a)
    THEN Denied("title_update", a)
    ELSE IF ~ TitleExists(t)
    THEN Reply("title_update", a, 404, {})
    ELSE IF TitlesSerializer_errors(data, TRUE) # {}
    THEN Reply("title_update", a, 400, TitlesSerializer_errors(data, TRUE))
    ELSE LET old == TitleRow(t)
             row == [old EXCEPT
                       !.year = IF data.year = NoYear THEN @ ELSE data.year[1]] IN
         { [State EXCEPT !.titles = (titles \ {old}) \cup {row},
                         !.resp = Response("title_update", a, 200, {})] }

\* DELETE /titles/{id}/
TitleDestroy(a, t) ==
    IF ~ IsAdminOrReadOnly_has_permission("DELETE", a)
    THEN Denied("title_destroy", a)
    ELSE IF ~ TitleExists(t)
    THEN Reply("title_destroy", a, 404, {})
    ELSE { [State EXCEPT !.titles = titles \ {TitleRow(t)},
                         !.reviews = reviews \ ReviewsOfTitle(t),
                         !.comments = comments \ CommentsOfReviews(ReviewsOfTitle(t)),
                         !.resp = Response("title_destroy", a, 204, {})] }

\* the calendar year advances
Tick == { [State EXCEPT !.now = now + 1] }

(***************************************************************************)
(* Review / Comment subsystem.                                             *)
(***************************************************************************)
Texts == {"t0", "t1"}

ReviewIds  == 1..(nextRid - 1)
CommentIds == 1..(nextCid - 1)

\* Review.objects.filter(title=title, author=author).exists()
ReviewExists(t, a) == \E r \in reviews : r.title = t /\ r.author = a

\* title.reviews: get_object_or_404(Title, id=title_id), then the reviews of
\* that title
ReviewViewSet_get_queryset(t) == ReviewsOfTitle(t)

\* get_object_or_404(Review, id=review_id, title=title_id)
ReviewOfPath(t, r) == {row \in reviews : row.id = r /\ row.title = t}

\* review.comments of the review the path names
CommentViewSet_get_queryset(t, r) ==
    {c \in comments : c.review = r /\ ReviewOfPath(t, r) # {}}

\* mutant: Review.Meta without the UniqueConstraint
unique_review_missing(row) == TRUE

\* UniqueConstraint unique_review on (title, author)
unique_review(row) ==
    ~ \E r \in reviews : r.id # row.id /\ r.title = row.title /\ r.author = row.author

\* the foreign keys of a review row name stored rows
ReviewForeignKeys(row) ==
    /\ TitleExists(row.title)
    /\ \E u \in users : u.id = row.author

\* whether the database accepts the INSERT (else IntegrityError)
ReviewRowAccepted(row) == ReviewForeignKeys(row) /\ unique_review(row)

\* What rejects a Review POST before the INSERT: the permission class, then
\* ReviewSerializer.validate and perform_create (title lookup, exists()).
\* The empty set when nothing does.
ReviewCreateRejection(a, t) ==
    IF ~ IsStaffOrAuthorOrReadOnly_has_permission("POST", a) THEN DeniedStatus(a)
    ELSE IF ~ TitleExists(t) THEN {404}
    ELSE IF ReviewExists(t, a) THEN {400}
    ELSE {}

ReviewCreateRejected(a, t) ==
    UNION { Reply("review_create", a, st, IF st = 400 THEN {"non_field_errors"} ELSE {}) :
            st \in ReviewCreateRejection(a, t) }

\* serializer.save(author=self.request.user, title=title): the INSERT
ReviewInsert(row, after) ==
    IF ~ ReviewRowAccepted(row)
    THEN { [after EXCEPT !.resp = Response("review_create", row.author, 500, {})] }
    ELSE { [after EXCEPT !.reviews = reviews \cup {row},
                         !.nextRid = nextRid + 1,
                         !.resp = Response("review_create", row.author, 201, {})] }

\* a worker with no Review POST in progress
Idle == [actor |-> NoUser, title |-> 0, text |-> None]

\* POST /titles/{t}/reviews/, up to and including the exists() pre-check of
\* perform_create; worker s then still has the INSERT to do
ReviewCreateCheck(s, a, t, text) ==
    IF inflight[s] # Idle THEN {}
    ELSE IF ReviewCreateRejection(a, t) # {}
    THEN ReviewCreateRejected(a, t)
    ELSE { [State EXCEPT !.inflight[s] = [actor |-> a, title |-> t, text |-> text]] }

\* the rest of the POST worker s is handling
ReviewCreateInsert(s) ==
    IF inflight[s] = Idle THEN {}
    ELSE ReviewInsert([id |-> nextRid, title |-> inflight[s].title,
                       author |-> inflight[s].actor, text |-> inflight[s].text],
                      [State EXCEPT !.inflight[s] = Idle])

\* POST /titles/{t}/reviews/ handled with no other request in between
ReviewCreate(a, t, text) ==
    IF ReviewCreateRejection(a, t) # {}
    THEN ReviewCreateRejected(a, t)
    ELSE ReviewInsert([id |-> nextRid, title |-> t, author |-> a, text |-> text],
                      State)

\* GET /titles/{t}/reviews/
ReviewList(a, t) ==
    IF ~ IsStaffOrAuthorOrReadOnly_has_permission("GET", a)
    THEN Denied("review_list", a)
    ELSE IF ~ TitleExists(t)
    THEN Reply("review_list", a, 404, {})
    ELSE Reply("review_list", a, 200, {})

\* PATCH /titles/{t}/reviews/{r}/
ReviewUpdate(a, t, r, text) ==
    IF ~ IsStaffOrAuthorOrReadOnly_has_permission("PATCH", a)
    THEN Denied("review_update", a)
    ELSE IF ~ TitleExists(t) \/ ~ \E row \in ReviewViewSet_get_queryset(t) : row.id = r
    THEN Reply("review_update", a, 404, {})
    ELSE LET old == CHOOSE row \in ReviewViewSet_get_queryset(t) : row.id = r IN
         IF ~ IsStaffOrAuthorOrReadOnly_has_object_permission("PATCH", a, old)
         THEN Reply("review_update", a, 403, {})
         ELSE { [State EXCEPT !.reviews = (reviews \ {old})
                                             \cup {[old EXCEPT !.text = text]},
                              !.resp = Response("review_update", a, 200, {})] }

\* DELETE /titles/{t}/reviews/{r}/
ReviewDestroy(a, t, r) ==
    IF ~ IsStaffOrAuthorOrReadOnly_has_permission("DELETE", a)
    THEN Denied("review_destroy", a)
    ELSE IF ~ TitleExists(t) \/ ~ \E row \in ReviewViewSet_get_queryset(t) : row.id = r
    THEN Reply("review_destroy", a, 404, {})
    ELSE LET old == CHOOSE row \in ReviewViewSet_get_queryset(t) : row.id = r IN
         IF ~ IsStaffOrAuthorOrReadOnly_has_object_permission("DELETE", a, old)
         THEN Reply("review_destroy", a, 403, {})
         ELSE { [State EXCEPT !.reviews = reviews \ {old},
                              !.comments = comments \ CommentsOfReviews({old}),
                              !.resp = Response("review_destroy", a, 204, {})] }

\* GET /titles/{t}/reviews/{r}/comments/
CommentList(a, t, r) ==
    IF ~ IsStaffOrAuthorOrReadOnly_has_permission("GET", a)
    THEN Denied("comment_list", a)
    ELSE IF ReviewOfPath(t, r) = {}
    THEN Reply("comment_list", a, 404, {})
    ELSE Reply("comment_list", a, 200, {})

\* POST /titles/{t}/reviews/{r}/comments/
CommentCreate(a, t, r, text) ==
    IF ~ IsStaffOrAuthorOrReadOnly_has_permission("POST", a)
    THEN Denied("comment_create", a)
    ELSE IF ReviewOfPath(t, r) = {}
    THEN Reply("comment_create", a, 404, {})
    ELSE { [State EXCEPT !.comments = comments \cup
                            {[id |-> nextCid, review |-> r, author |-> a,
                              text |-> text]},
                         !.nextCid = nextCid + 1,
                         !.resp = Response("comment_create", a, 201, {})] }

\* PATCH /titles/{t}/reviews/{r}/comments/{c}/
CommentUpdate(a, t, r, c, text) ==
    IF ~ IsStaffOrAuthorOrReadOnly_has_permission("PATCH", a)
    THEN Denied("comment_update", a)
    ELSE IF ~ \E row \in CommentViewSet_get_queryset(t, r) : row.id = c
    THEN Reply("comment_update", a, 404, {})
    ELSE LET old == CHOOSE row \in CommentViewSet_get_queryset(t, r) : row.id = c IN
         IF ~ IsStaffOrAuthorOrReadOnly_has_object_permission("PATCH", a, old)
         THEN Reply("comment_update", a, 403, {})
         ELSE { [State EXCEPT !.comments = (comments \ {old})
                                               \cup {[old EXCEPT !.text = text]},
                              !.resp = Response("comment_update", a, 200, {})] }

\* DELETE /titles/{t}/reviews/{r}/comments/{c}/
CommentDestroy(a, t, r, c) ==
    IF ~ IsStaffOrAuthorOrReadOnly_has_permission("DELETE", a)
    THEN Denied("comment_destroy", a)
    ELSE IF ~ \E row \in CommentViewSet_get_queryset(t, r) : row.id = c
    THEN Reply("comment_destroy", a, 404, {})
    ELSE LET old == CHOOSE row \in CommentViewSet_get_queryset(t, r) : row.id = c IN
         IF ~ IsStaffOrAuthorOrReadOnly_has_object_permission("DELETE", a, old)
         THEN Reply("comment_destroy", a, 403, {})
         ELSE { [State EXCEPT !.comments = comments \ {old},
                              !.resp = Response("comment_destroy", a, 204, {})] }

(***************************************************************************)
(* Steps.  A request is handled when one of its outcomes becomes the       *)
(* state; the model stops creating rows at its bounds.                     *)
(***************************************************************************)
WithinBounds(o, maxReviews) ==
    /\ o.nextUid # nextUid => nextUid <= MaxUsers
    /\ o.nextTid # nextTid => nextTid <= MaxTitles
    /\ o.nextRid # nextRid => nextRid <= maxReviews
    /\ o.nextCid # nextCid => nextCid <= MaxComments
    /\ o.now # now => now < MaxYear

Handle(outcomes) ==
    \E o \in outcomes : WithinBounds(o, MaxReviews) /\ Apply(o)

HandleRaced(outcomes) ==
    \E o \in outcomes : WithinBounds(o, MaxRaced) /\ Apply(o)

(***************************************************************************)
(* The identity specification: an empty catalog, and one superuser made    *)
(* with manage.py createsuperuser who holds an access token.               *)
(***************************************************************************)
Root == [id |-> 1, username |-> RootName, email |-> RootEmail,
         role |-> USER, is_superuser |-> TRUE]

InitIdentity ==
    /\ users = {Root}
    /\ nextUid = 2
    /\ codes = {}
    /\ tokens = {1}
    /\ consumed = {}
    /\ categories = {}
    /\ genres = {}
    /\ titles = {}
    /\ nextTid = 1
    /\ reviews = {}
    /\ nextRid = 1
    /\ comments = {}
    /\ nextCid = 1
    /\ inflight = [s \in 1..MaxInflight |-> Idle]
    /\ now = BootYear
    /\ resp = Response("none", NoUser, 0, {})

\* the usernames a /users/{username}/ path names: every stored one, and one
\* that is not stored
PathNames == {u.username : u \in users} \cup {NoName}

NextIdentity ==
    \/ \E u \in Usernames, e \in Emails : Handle(register(u, e))
    \/ \E u \in Usernames \cup {RootName}, c \in codes \cup {BadCode} :
          Handle(get_jwt_token(u, c))
    \/ \E a \in Actors :
          \E d \in Bodies(IsAdmin_has_permission(a), CreateData) :
             Handle(UserCreate(a, d))
    \/ \E a \in Actors, n \in PathNames :
          \E d \in Bodies(IsAdmin_has_permission(a) /\ n # NoName, PatchData) :
             Handle(UserUpdate(a, n, d))
    \/ \E a \in Actors : Handle(users_own_profile(a))
    \/ \E a \in Actors :
          \E d \in Bodies(IsAuthenticated_has_permission(a), PatchData) :
             Handle(patch_own_profile(a, d))

SpecIdentity == InitIdentity /\ [][NextIdentity]_vars

(***************************************************************************)
(* The content specifications start from a registered population: the      *)
(* superuser, an admin, a moderator and a plain user, each with a token.   *)
(***************************************************************************)
Population ==
    { Root,
      [id |-> 2, username |-> <<"a">>, email |-> "a@y", role |-> ADMIN,
       is_superuser |-> FALSE],
      [id |-> 3, username |-> <<"A">>, email |-> "m@y", role |-> MODERATOR,
       is_superuser |-> FALSE],
      [id |-> 4, username |-> <<"e">>, email |-> "z@y", role |-> USER,
       is_superuser |-> FALSE] }

InitPopulation(rows) ==
    /\ users = rows
    /\ nextUid = 5
    /\ codes = {make_token(u) : u \in rows \ {Root}}
    /\ tokens = {u.id : u \in rows}
    /\ consumed = codes
    /\ inflight = [s \in 1..MaxInflight |-> Idle]
    /\ now = BootYear
    /\ resp = Response("none", NoUser, 0, {})

FirstTitle == [id |-> 1, year |-> BootYear]

\* Catalog: one title with a review and a comment on it
InitCatalog ==
    /\ InitPopulation(Population)
    /\ categories = {}
    /\ genres = {}
    /\ titles = {FirstTitle}
    /\ nextTid = 2
    /\ reviews = {[id |-> 1, title |-> 1, author |-> 4, text |-> "t0"]}
    /\ nextRid = 2
    /\ comments = {[id |-> 1, review |-> 1, author |-> 3, text |-> "t0"]}
    /\ nextCid = 2

\* every actor on the catalog, the anonymous actor on reviews and comments
NextCatalog ==
    \/ \E a \in Actors : Handle(CategoryList(a))
    \/ \E a \in Actors, c \in CategorySlugs : Handle(CategoryCreate(a, c))
    \/ \E a \in Actors, c \in CategorySlugs : Handle(CategoryDestroy(a, c))
    \/ \E a \in Actors : Handle(GenreList(a))
    \/ \E a \in Actors, g \in GenreSlugs : Handle(GenreCreate(a, g))
    \/ \E a \in Actors, g \in GenreSlugs : Handle(GenreDestroy(a, g))
    \/ \E a \in Actors : Handle(TitleList(a))
    \/ \E a \in Actors :
          \E d \in Bodies(IsAdminOrReadOnly_has_permission("POST", a), TitleData) :
             Handle(TitleCreate(a, d))
    \/ \E a \in Actors, t \in TitleIds :
          \E d \in Bodies(IsAdminOrReadOnly_has_permission("PATCH", a) /\ TitleExists(t),
                          TitlePatchData) :
             Handle(TitleUpdate(a, t, d))
    \/ \E a \in Actors, t \in TitleIds : Handle(TitleDestroy(a, t))
    \/ \E t \in TitleIds : Handle(ReviewList(NoUser, t))
    \/ \E t \in TitleIds, x \in Bodies(is_authenticated(NoUser), Texts) :
          Handle(ReviewCreate(NoUser, t, x))
    \/ \E t \in TitleIds, r \in ReviewIds, x \in Bodies(is_authenticated(NoUser), Texts) :
          Handle(ReviewUpdate(NoUser, t, r, x))
    \/ \E t \in TitleIds, r \in ReviewIds : Handle(ReviewDestroy(NoUser, t, r))
    \/ \E t \in TitleIds, r \in ReviewIds : Handle(CommentList(NoUser, t, r))
    \/ \E t \in TitleIds, r \in ReviewIds, x \in Bodies(is_authenticated(NoUser), Texts) :
          Handle(CommentCreate(NoUser, t, r, x))
    \/ \E t \in TitleIds, r \in ReviewIds, c \in CommentIds,
          x \in Bodies(is_authenticated(NoUser), Texts) :
          Handle(CommentUpdate(NoUser, t, r, c, x))
    \/ \E t \in TitleIds, r \in ReviewIds, c \in CommentIds :
          Handle(CommentDestroy(NoUser, t, r, c))
    \/ Handle(Tick)

SpecCatalog == InitCatalog /\ [][NextCatalog]_vars

\* Moderation: one title; reviews and comments are posted by the anonymous
\* actor, the moderator and the plain user with the text "t0", and every
\* actor tries to update (to either text) and to delete them, one request
\* at a time
Writers == {NoUser, 3, 4}

InitModeration ==
    /\ InitPopulation(Population)
    /\ categories = {}
    /\ genres = {}
    /\ titles = {FirstTitle}
    /\ nextTid = 2
    /\ reviews = {}
    /\ nextRid = 1
    /\ comments = {}
    /\ nextCid = 1

NextModeration ==
    \/ \E a \in Writers, t \in TitleIds : Handle(ReviewCreate(a, t, "t0"))
    \/ \E a \in Actors, t \in TitleIds, r \in ReviewIds :
          \E x \in Bodies(is_authenticated(a) /\ ReviewOfPath(t, r) # {}, Texts) :
             Handle(ReviewUpdate(a, t, r, x))
    \/ \E a \in Actors, t \in TitleIds, r \in ReviewIds : Handle(ReviewDestroy(a, t, r))
    \/ \E a \in Writers, t \in TitleIds, r \in ReviewIds :
          Handle(CommentCreate(a, t, r, "t0"))
    \/ \E a \in Actors, t \in TitleIds, r \in ReviewIds, c \in CommentIds :
          \E x \in Bodies(is_authenticated(a) /\ ReviewOfPath(t, r) # {}, Texts) :
             Handle(CommentUpdate(a, t, r, c, x))
    \/ \E a \in Actors, t \in TitleIds, r \in ReviewIds, c \in CommentIds :
          Handle(CommentDestroy(a, t, r, c))
    \/ \E a \in Actors, t \in TitleIds : Handle(TitleDestroy(a, t))

SpecModeration == InitModeration /\ [][NextModeration]_vars

\* Race: two users, two titles, Review POSTs handled by concurrent workers
InitRace ==
    /\ InitPopulation({u \in Population : u.role = USER})
    /\ categories = {}
    /\ genres = {}
    /\ titles = {FirstTitle, [FirstTitle EXCEPT !.id = 2]}
    /\ nextTid = 3
    /\ reviews = {}
    /\ nextRid = 1
    /\ comments = {}
    /\ nextCid = 1

NextRace ==
    \/ \E s \in 1..MaxInflight, a \in Actors, t \in TitleIds :
          HandleRaced(ReviewCreateCheck(s, a, t, "t0"))
    \/ \E s \in 1..MaxInflight : HandleRaced(ReviewCreateInsert(s))
    \/ \E a \in Actors, t \in TitleIds, r \in ReviewIds :
          HandleRaced(ReviewDestroy(a, t, r))
    \/ \E a \in Actors, t \in TitleIds : HandleRaced(TitleDestroy(a, t))
    \/ \E a \in Actors, n \in PathNames : HandleRaced(UserDestroy(a, n))

SpecRace == InitRace /\ [][NextRace]_vars

(***************************************************************************)
(* Properties.  A property of a handler is stated over every request that  *)
(* can be sent in a reachable state and every outcome of handling it.      *)
(***************************************************************************)
\* the actor is authenticated and is an admin or a superuser
ActorIsAdmin(a) == a # NoUser /\ (Row(a).role = ADMIN \/ Row(a).is_superuser)

\* the rows stored in outcome o
Stored(o) == <<o.users, o.categories, o.genres, o.titles, o.reviews, o.comments>>

\* the request failed with a ValidationError on `field` and wrote nothing
Invalid(o, field) ==
    /\ o.resp.status = 400
    /\ field \in o.resp.errors
    /\ Stored(o) = Stored(State)

\* the request was denied by a permission class and wrote nothing
Refused(o, a) ==
    /\ o.resp.status \in (IF a = NoUser THEN {401, 403} ELSE {403})
    /\ Stored(o) = Stored(State)

\* every user row of the state is in outcome o with the role it has
RolesKept(o) == \A u \in users, v \in o.users : u.id = v.id => u.role = v.role

(***************************************************************************)
(* Identity (SpecIdentity).                                                *)
(***************************************************************************)
\* C4: no own-profile request (GET or PATCH /users/me), whatever role it
\* submits, changes a role: a PATCH that submits only a role succeeds and
\* leaves every row as it is.  A registered user has role "user" and the
\* exchange writes no row.  A role is only set or changed by a request to
\* /users that an admin or a superuser sent.
C4_RoleChangesOnlyByAdmin ==
    /\ \A a \in Actors :
          /\ \A o \in users_own_profile(a) : Stored(o) = Stored(State)
          /\ \A d \in PatchData : \A o \in patch_own_profile(a, d) : RolesKept(o)
          /\ a # NoUser =>
                \A r \in RoleInputs :
                   \A o \in patch_own_profile(a, [Blank EXCEPT !.role = r]) :
                      o.resp.status = 200 /\ o.users = users
    /\ \A u \in Usernames, e \in Emails :
          \A o \in register(u, e) :
             RolesKept(o) /\ \A v \in o.users \ users : v.role = USER
    /\ \A u \in Usernames \cup {RootName}, c \in codes \cup {BadCode} :
          \A o \in get_jwt_token(u, c) : o.users = users
    /\ \A a \in Actors, d \in CreateData :
          \A o \in UserCreate(a, d) :
             RolesKept(o) /\ (o.users # users => ActorIsAdmin(a))
    /\ \A a \in Actors, n \in PathNames, d \in PatchData :
          \A o \in UserUpdate(a, n, d) : ~ RolesKept(o) => ActorIsAdmin(a)

\* C4 witness: a registered user who exchanged the code got 200 for
\* PATCH /users/me and has role "user"
C4_Witness ==
    /\ resp.op = "me_patch" /\ resp.status = 200
    /\ \E u \in users : /\ u.id = resp.actor
                        /\ ~ u.is_superuser
                        /\ u.role = USER
                        /\ \E c \in consumed : c.uid = u.id

\* C5 (as claimed): creating a user whose username is "me" in any letter case
\* fails with ValidationError on the username and stores nothing, at
\* /auth/signup and, for an admin or a superuser, at /users.
C5_ReservedNameIsValidationError ==
    /\ \A u \in Usernames, e \in Emails :
          Lower(u) = <<"m", "e">> =>
             \A o \in register(u, e) : Invalid(o, "username")
    /\ \A a \in Actors, d \in CreateData :
          (ActorIsAdmin(a) /\ Lower(d.username) = <<"m", "e">>) =>
             \A o \in UserCreate(a, d) : Invalid(o, "username")

\* C6 (as claimed): after any sequence of Register, admin create or update
\* and own-profile PATCH requests, no two distinct users have usernames that
\* are equal when letter case is ignored.
C6_CaseInsensitiveUnique ==
    \A u, v \in users : u.id # v.id => Lower(u.username) # Lower(v.username)

\* C7 (as claimed): after any sequence of Register, admin create or update
\* and own-profile PATCH requests, no two distinct users have the same
\* email.
C7_EmailUnique ==
    \A u, v \in users : u.id # v.id => u.email # v.email

\* C8 (as claimed): an exchange returns a token only for the code that is
\* valid for the named user, and a code that an exchange has accepted, or
\* that was issued for another email than the user now has, is refused.
C8_CodeSingleUse ==
    \A u \in Usernames \cup {RootName}, c \in codes \cup {BadCode} :
       \A o \in get_jwt_token(u, c) :
          /\ o.resp.status = 200 =>
                \E row \in users : row.username = u /\ check_token(row, c)
          /\ c \in consumed => o.resp.status = 400 /\ o.tokens = tokens
          /\ (\E row \in users : row.username = u /\ row.email # c.email) =>
                o.resp.status = 400 /\ o.tokens = tokens

(***************************************************************************)
(* Catalog (SpecCatalog).                                                  *)
(***************************************************************************)
\* the outcomes of every read the actor can send
Reads(a) ==
    CategoryList(a) \cup GenreList(a) \cup TitleList(a)
    \cup UNION {ReviewList(a, row.title) : row \in reviews}
    \cup UNION {CommentList(a, row.title, row.id) : row \in reviews}

\* the outcomes of every write to Category, Genre and Title the actor can send
CatalogWrites(a) ==
    UNION {CategoryCreate(a, c) \cup CategoryDestroy(a, c) : c \in CategorySlugs}
    \cup UNION {GenreCreate(a, g) \cup GenreDestroy(a, g) : g \in GenreSlugs}
    \cup UNION {TitleCreate(a, d) : d \in TitleData}
    \cup UNION {TitleUpdate(a, t, d) : t \in TitleIds, d \in TitlePatchData}
    \cup UNION {TitleDestroy(a, t) : t \in TitleIds}

\* the outcomes of every write to Review and Comment the actor can send
ReviewWrites(a) ==
    UNION {ReviewCreate(a, t, x) : t \in TitleIds, x \in Texts}
    \cup UNION {ReviewUpdate(a, t, r, x) \cup ReviewDestroy(a, t, r) :
                   t \in TitleIds, r \in ReviewIds, x \in Texts}
    \cup UNION {CommentCreate(a, t, r, x) : t \in TitleIds, r \in ReviewIds, x \in Texts}
    \cup UNION {CommentUpdate(a, t, r, c, x) \cup CommentDestroy(a, t, r, c) :
                   t \in TitleIds, r \in ReviewIds, c \in CommentIds, x \in Texts}

\* C3: an unauthenticated actor gets 200 for every list of Titles,
\* Categories and Genres and of the Reviews and Comments of a stored title
\* and review; every write it sends is denied and changes nothing; and a
\* write to Category, Genre or Title succeeds, or changes anything, only when
\* the actor is authenticated and is an admin or a superuser.
C3_AnonymousReadsAdminWrites ==
    /\ \A o \in Reads(NoUser) : o.resp.status = 200 /\ Stored(o) = Stored(State)
    /\ \A o \in CatalogWrites(NoUser) \cup ReviewWrites(NoUser) : Refused(o, NoUser)
    /\ \A a \in Actors :
          \A o \in CatalogWrites(a) :
             IF ActorIsAdmin(a)
             THEN o.resp.status \in {200, 201, 204, 400, 404}
             ELSE Refused(o, a)

\* C3 witness: the anonymous actor was denied the deletion of a title, and
\* the title, its review and the comment on it are still stored
C3_Witness ==
    /\ resp.op = "title_destroy" /\ resp.actor = NoUser
    /\ resp.status \in NotAuthenticatedStatus
    /\ titles # {} /\ reviews # {} /\ comments # {}

\* C10: a Title create or update by an admin or a superuser whose year is
\* above the current calendar year fails with ValidationError on the year and
\* writes nothing, and no stored title has a year above the current one.
C10_FutureYearRejected ==
    /\ \A row \in titles : row.year <= now
    /\ \A a \in Actors, d \in TitleData :
          (ActorIsAdmin(a) /\ d.year # NoYear /\ d.year[1] > now) =>
             /\ \A o \in TitleCreate(a, d) : Invalid(o, "year") /\ o.nextTid = nextTid
             /\ \A row \in titles :
                   \A o \in TitleUpdate(a, row.id, d) : Invalid(o, "year")

\* C10 witness: after the clock advanced, an update of a stored title was
\* rejected for its year (the requests of the model submit no negative year)
C10_Witness ==
    /\ resp.op = "title_update" /\ resp.status = 400 /\ "year" \in resp.errors
    /\ ActorIsAdmin(resp.actor)
    /\ now > BootYear
    /\ titles # {}

(***************************************************************************)
(* Moderation (SpecModeration).                                            *)
(***************************************************************************)
\* the rule of the claim: who may update or delete a review or a comment
MayWrite(a, obj) ==
    /\ a # NoUser
    /\ \/ Row(a).is_superuser
       \/ Row(a).role = ADMIN
       \/ Row(a).role = MODERATOR
       \/ obj.author = a

\* C2: an update or a delete of a stored Review or Comment succeeds when the
\* actor is authenticated and is a superuser, an admin, a moderator or the
\* author of the row; from any other actor it is denied (403 for an
\* authenticated one) and nothing changes.
C2_StaffOrAuthorWrites ==
    \A a \in Actors, rv \in reviews :
       /\ \A x \in Texts :
             \A o \in ReviewUpdate(a, rv.title, rv.id, x) :
                IF MayWrite(a, rv)
                THEN /\ o.resp.status = 200
                     /\ o.reviews = (reviews \ {rv}) \cup {[rv EXCEPT !.text = x]}
                ELSE Refused(o, a)
       /\ \A o \in ReviewDestroy(a, rv.title, rv.id) :
             IF MayWrite(a, rv)
             THEN o.resp.status = 204 /\ o.reviews = reviews \ {rv}
             ELSE Refused(o, a)
       /\ \A c \in {k \in comments : k.review = rv.id} :
             /\ \A x \in Texts :
                   \A o \in CommentUpdate(a, rv.title, rv.id, c.id, x) :
                      IF MayWrite(a, c)
                      THEN /\ o.resp.status = 200
                           /\ o.comments = (comments \ {c}) \cup {[c EXCEPT !.text = x]}
                      ELSE Refused(o, a)
             /\ \A o \in CommentDestroy(a, rv.title, rv.id, c.id) :
                   IF MayWrite(a, c)
                   THEN o.resp.status = 204 /\ o.comments = comments \ {c}
                   ELSE Refused(o, a)

\* C2 witness: the plain user got 403 for the update of a review that the
\* moderator wrote, and the review has the text it was posted with
C2_Witness ==
    /\ resp.op = "review_update" /\ resp.status = 403
    /\ resp.actor \in {u.id : u \in users}
    /\ Row(resp.actor).role = USER /\ ~ Row(resp.actor).is_superuser
    /\ \E rv \in reviews : rv.author # resp.actor /\ rv.text = "t0"

\* C9: every stored comment refers to a stored review and every stored
\* review to a stored title; deleting a review leaves none of its comments
\* and deleting a title none of its reviews nor of their comments.
C9_NoDanglingRows ==
    /\ \A c \in comments : \E rv \in reviews : rv.id = c.review
    /\ \A rv \in reviews : TitleExists(rv.title)
    /\ \A a \in Actors, rv \in reviews :
          \A o \in ReviewDestroy(a, rv.title, rv.id) :
             rv \notin o.reviews => \A c \in o.comments : c.review # rv.id
    /\ \A a \in Actors, row \in titles :
          \A o \in TitleDestroy(a, row.id) :
             row \notin o.titles =>
                /\ \A rv \in o.reviews : rv.title # row.id
                /\ \A c \in o.comments : \E rv \in o.reviews : rv.id = c.review

\* C9 witness: the title was deleted after a review and a comment were
\* posted on it, and no review and no comment is stored
C9_Witness ==
    /\ resp.op = "title_destroy" /\ resp.status = 204
    /\ nextRid > 1 /\ nextCid > 1
    /\ titles = {} /\ reviews = {} /\ comments = {}

(***************************************************************************)
(* Race (SpecRace).                                                        *)
(***************************************************************************)
\* C1: no two stored reviews have the same title and author, however the
\* pre-checks and INSERTs of concurrent Review POSTs interleave.  An INSERT
\* for a pair that has a review fails and stores nothing; an INSERT for a
\* pair that has none, whose title and author are stored, succeeds; and a
\* POST that is handled alone for a pair that has a review fails with
\* ValidationError.
C1_OneReviewPerTitleAuthor ==
    /\ \A r1, r2 \in reviews :
          (r1.title = r2.title /\ r1.author = r2.author) => r1.id = r2.id
    /\ \A s \in DOMAIN inflight :
          inflight[s] # Idle =>
             \A o \in ReviewCreateInsert(s) :
                IF ReviewExists(inflight[s].title, inflight[s].actor)
                THEN o.resp.status = 500 /\ o.reviews = reviews
                ELSE ReviewForeignKeys([title |-> inflight[s].title,
                                        author |-> inflight[s].actor]) =>
                        /\ o.resp.status = 201
                        /\ \E rv \in o.reviews \ reviews :
                              /\ rv.title = inflight[s].title
                              /\ rv.author = inflight[s].actor
    /\ \A a \in Actors, t \in TitleIds :
          (a # NoUser /\ TitleExists(t) /\ ReviewExists(t, a)) =>
             \A o \in ReviewCreate(a, t, "t0") :
                Invalid(o, "non_field_errors")

\* C1 witness: two POSTs for one pair had both passed the pre-check; the
\* first INSERT stored the review and the second has just failed, with the
\* title and the author still stored
C1_Witness ==
    /\ resp.op = "review_create" /\ resp.status = 500
    /\ resp.actor \in {u.id : u \in users}
    /\ titles = {FirstTitle, [FirstTitle EXCEPT !.id = 2]}
    /\ \E rv \in reviews : rv.author = resp.actor
    /\ \A s \in DOMAIN inflight : inflight[s] = Idle

====
